---- MODULE Spec2Model ----
\* A model of utils/mount/overlay2.go of sealer: the overlay2 mount driver
\* (NewMountDriver, Overlay2.Mount, Overlay2.Unmount), the mount-table parser
\* (mountCmdResultSplit, GetMountDetails, GetRemoteMountDetails) and the
\* enumeration of build mounts (GetBuildMountInfo).
EXTENDS Naturals, Sequences, FiniteSets, TLC

VARIABLES
    \* ---- Overlay2.Mount / Overlay2.Unmount, one entry per caller ----
    pc,          \* where each caller stands inside Mount
    req,         \* the arguments of the running call: target, upperLayer, layers
    workdir,     \* the local variable workdir (overlay2.go:81)
    err,         \* the local variable err (overlay2.go:85), read by the deferred cleanup
    indexOff,    \* the local variable indexOff (overlay2.go:92)
    ret,         \* what the last call returned to its caller
    calls,       \* the calls the running invocation made to its collaborators, in order
    dirs,        \* the directories that exist (the filesystem)
    mounts,      \* how many overlay mounts are stacked on each mount point (the kernel)
    serialized,  \* whether callers impose mutual exclusion per target
    \* ---- GetMountDetails / GetRemoteMountDetails / mountCmdResultSplit ----
    pcq,         \* "idle" or "answered"
    query,       \* the last lookup: its kind, target, command output and origin
    answer,      \* what the lookup returned, or that it panicked
    \* ---- NewMountDriver / supportsOverlay ----
    modprobeOK,  \* whether `modprobe overlay` exits with success
    openOK,      \* whether /proc/filesystems can be opened
    closeOK,     \* whether closing /proc/filesystems succeeds
    filesystems, \* the lines of /proc/filesystems
    driver,      \* what the last NewMountDriver call returned
    prevDriver,  \* what the call before it returned
    pcd,         \* "idle", "returned" or "exited"
    \* ---- GetBuildMountInfo ----
    pcE,         \* "idle", "loop", "done" or "panic"
    partitions,  \* what disk.Partitions(true) returned
    filter,      \* the argument filter
    mp,          \* the local variable mp
    mpi,         \* the position of the second loop in mp
    infos        \* the local variable infos (the result once pcE = "done")

mountVars == <<pc, req, workdir, err, indexOff, ret, calls, dirs, mounts, serialized>>
queryVars == <<pcq, query, answer>>
probeVars == <<modprobeOK, openOK, closeOK, filesystems, driver, prevDriver, pcd>>
enumVars  == <<pcE, partitions, filter, mp, mpi, infos>>
vars == <<mountVars, queryVars, probeVars, enumVars>>

\* ---------------------------------------------------------------------------
\* Strings are sequences of one-character strings.  The literals of the source
\* and of the inputs follow.
\* ---------------------------------------------------------------------------
\* "work" (overlay2.go:81)
S_work ==
    <<"w", "o", "r", "k">>
\* "index=off," (overlay2.go:97)
S_indexOff ==
    <<"i", "n", "d", "e", "x", "=", "o", "f", "f", ",">>
\* "lowerdir=" of the format string (overlay2.go:104)
S_lowerdir ==
    <<"l", "o", "w", "e", "r", "d", "i", "r", "=">>
\* ",upperdir=" (overlay2.go:104, 161)
S_upperdir ==
    <<",", "u", "p", "p", "e", "r", "d", "i", "r", "=">>
\* ",workdir=" (overlay2.go:104, 167)
S_workdir ==
    <<",", "w", "o", "r", "k", "d", "i", "r", "=">>
\* ",lowerdir=" (overlay2.go:166)
S_lowerdirMark ==
    <<",", "l", "o", "w", "e", "r", "d", "i", "r", "=">>
\* ":" (overlay2.go:104, 166)
S_colon ==
    <<":">>
\* the path separator of package path
S_slash ==
    <<"/">>
\* "."
S_dot ==
    <<".">>
\* ".."
S_dotdot ==
    <<".", ".">>
\* "sealer" (overlay2.go:180)
S_sealer ==
    <<"s", "e", "a", "l", "e", "r">>
\* "overlay" (overlay2.go:180)
S_overlay ==
    <<"o", "v", "e", "r", "l", "a", "y">>
\* a filesystem type other than overlay
S_tmpfs ==
    <<"t", "m", "p", "f", "s">>
\* the line terminator of command output
S_newline ==
    <<"\n">>
\* target "/sealer"
T_sealer ==
    <<"/", "s", "e", "a", "l", "e", "r">>
\* target "/sealer/" (not lexically clean)
T_sealerSlash ==
    <<"/", "s", "e", "a", "l", "e", "r", "/">>
\* target "/sealer/./x" (not lexically clean)
T_sealerDotX ==
    <<"/", "s", "e", "a", "l", "e", "r", "/", ".", "/", "x">>
\* "/sealer/x/work"
W_sealerXWork ==
    <<"/", "s", "e", "a", "l", "e", "r", "/", "x", "/", "w", "o", "r", "k">>
\* "/work"
S_slashWork ==
    <<"/", "w", "o", "r", "k">>
\* mount point "/sealer/x"
T_sealerX ==
    <<"/", "s", "e", "a", "l", "e", "r", "/", "x">>
\* mount point "/other"
T_other ==
    <<"/", "o", "t", "h", "e", "r">>
\* upper directory "/up"
U_up ==
    <<"/", "u", "p">>
\* upper directory " /up" (leading blank)
U_spaceUp ==
    <<" ", "/", "u", "p">>
\* upper directory "/up " (trailing blank)
U_upSpace ==
    <<"/", "u", "p", " ">>
\* layer "/a"
N_a ==
    <<"/", "a">>
\* layer "/b"
N_b ==
    <<"/", "b">>
\* layer "/c:d" (holds the list separator)
N_colon ==
    <<"/", "c", ":", "d">>
\* "/sealer/work"
W_sealerWork ==
    <<"/", "s", "e", "a", "l", "e", "r", "/", "w", "o", "r", "k">>
\* filter "x"
F_x ==
    <<"x">>
\* filter "zz"
F_zz ==
    <<"z", "z">>
\* mount(8) line, before the mount point
Line_pre1 ==
    <<"o", "v", "e", "r", "l", "a", "y", " ", "o", "n", " ">>
\* mount(8) line, between mount point and options
Line_pre2 ==
    <<" ", "t", "y", "p", "e", " ", "o", "v", "e", "r", "l", "a", "y", " ", "(", "r", "w",
    ",", "r", "e", "l", "a", "t", "i", "m", "e", ",">>
\* mount(8) line, after the options
Line_post ==
    <<")", "\n">>
\* an overlay entry mounted on /sealer
Line_overlay ==
    <<"o", "v", "e", "r", "l", "a", "y", " ", "o", "n", " ", "/", "s", "e", "a", "l", "e",
    "r", " ", "t", "y", "p", "e", " ", "o", "v", "e", "r", "l", "a", "y", " ", "(", "r",
    "w", ",", "l", "o", "w", "e", "r", "d", "i", "r", "=", "/", "b", ":", "/", "a", ",",
    "u", "p", "p", "e", "r", "d", "i", "r", "=", "/", "u", "p", ",", "w", "o", "r", "k",
    "d", "i", "r", "=", "/", "s", "e", "a", "l", "e", "r", "/", "w", "o", "r", "k", ")">>
\* an overlay entry mounted on /sealer/x
Line_overlayX ==
    <<"o", "v", "e", "r", "l", "a", "y", " ", "o", "n", " ", "/", "s", "e", "a", "l", "e",
    "r", "/", "x", " ", "t", "y", "p", "e", " ", "o", "v", "e", "r", "l", "a", "y", " ",
    "(", "r", "w", ",", "l", "o", "w", "e", "r", "d", "i", "r", "=", "/", "c", ",", "u",
    "p", "p", "e", "r", "d", "i", "r", "=", "/", "u", "x", ",", "w", "o", "r", "k", "d",
    "i", "r", "=", "/", "s", "e", "a", "l", "e", "r", "/", "x", "/", "w", "o", "r", "k",
    ")">>
\* a non-overlay entry below /sealer
Line_tmpfs ==
    <<"t", "m", "p", "f", "s", " ", "o", "n", " ", "/", "s", "e", "a", "l", "e", "r", "/",
    "t", " ", "t", "y", "p", "e", " ", "t", "m", "p", "f", "s", " ", "(", "r", "w", ")">>
\* an entry with ",upperdir=" and no ",lowerdir="
Line_noLower ==
    <<"f", "u", "s", "e", " ", "o", "n", " ", "/", "s", "e", "a", "l", "e", "r", " ", "t",
    "y", "p", "e", " ", "f", "u", "s", "e", " ", "(", "r", "w", ",", "u", "p", "p", "e",
    "r", "d", "i", "r", "=", "/", "u", "p", ")">>
\* an entry that does not mention /sealer
Line_proc ==
    <<"p", "r", "o", "c", " ", "o", "n", " ", "/", "p", "r", "o", "c", " ", "t", "y", "p",
    "e", " ", "p", "r", "o", "c", " ", "(", "r", "w", ")">>

\* ---------------------------------------------------------------------------
\* The library functions the source calls, over strings as character sequences.
\* ---------------------------------------------------------------------------
\* The bounds of the inputs.
MaxLayers == 2
MaxMounts == 2
MaxLines == 2
MaxRegLines == 2
MaxParts == 2

\* All sequences over S of length at most n.
SeqUpTo(S, n) == UNION {[1..k -> S] : k \in 0..n}

\* strings.Index(s, sep) + 1 for a non-empty sep: the position of the leftmost
\* occurrence of sep in s, 0 when there is none.
Index(s, sep) ==
    LET hits == {i \in 1..(Len(s) + 1 - Len(sep)) : SubSeq(s, i, i + Len(sep) - 1) = sep}
    IN  IF Len(sep) > Len(s) \/ hits = {} THEN 0
        ELSE CHOOSE i \in hits : \A j \in hits : i <= j

\* strings.Contains(s, substr)
Contains(s, substr) == substr = <<>> \/ Index(s, substr) # 0

\* strings.Split(s, sep) for a non-empty sep: the pieces between the leftmost
\* non-overlapping occurrences of sep; <<s>> when sep does not occur.
RECURSIVE Split(_, _)
Split(s, sep) ==
    LET i == Index(s, sep)
    IN  IF i = 0 THEN <<s>>
        ELSE <<SubSeq(s, 1, i - 1)>> \o Split(SubSeq(s, i + Len(sep), Len(s)), sep)

\* strings.Join(elems, sep)
RECURSIVE Join(_, _)
Join(elems, sep) ==
    IF elems = <<>> THEN <<>>
    ELSE IF Len(elems) = 1 THEN elems[1]
    ELSE elems[1] \o sep \o Join(Tail(elems), sep)

\* unicode.IsSpace on the characters the model uses.
IsSpace(c) == c \in {" ", "\t", "\n", "\r"}

\* strings.TrimSpace(s)
RECURSIVE TrimLeft(_)
TrimLeft(s) == IF s # <<>> /\ IsSpace(Head(s)) THEN TrimLeft(Tail(s)) ELSE s
RECURSIVE TrimRight(_)
TrimRight(s) ==
    IF s # <<>> /\ IsSpace(s[Len(s)]) THEN TrimRight(SubSeq(s, 1, Len(s) - 1)) ELSE s
TrimSpace(s) == TrimRight(TrimLeft(s))

\* utils.Reverse(s): the elements of s in the opposite order.
Reverse(s) == [i \in 1..Len(s) |-> s[Len(s) + 1 - i]]

\* path.Clean(p): the shortest path lexically equivalent to p.  The components
\* between slashes are taken in order: an empty one and "." are dropped, ".."
\* removes the component before it (at the root it is dropped, at the start of a
\* relative path it is kept).
RECURSIVE CleanParts(_, _, _)
CleanParts(parts, rooted, out) ==
    IF parts = <<>> THEN out
    ELSE LET c == Head(parts) IN
         IF c = <<>> \/ c = S_dot THEN CleanParts(Tail(parts), rooted, out)
         ELSE IF c = S_dotdot THEN
              IF out # <<>> /\ out[Len(out)] # S_dotdot
                   THEN CleanParts(Tail(parts), rooted, SubSeq(out, 1, Len(out) - 1))
              ELSE IF rooted THEN CleanParts(Tail(parts), rooted, out)
              ELSE CleanParts(Tail(parts), rooted, Append(out, c))
         ELSE CleanParts(Tail(parts), rooted, Append(out, c))

PathClean(p) ==
    IF p = <<>> THEN S_dot
    ELSE LET rooted == Head(p) = "/"
             body == Join(CleanParts(Split(p, S_slash), rooted, <<>>), S_slash)
             full == IF rooted THEN S_slash \o body ELSE body
         IN  IF full = <<>> THEN S_dot ELSE full

\* path.Join(a, b): the non-empty elements joined by "/" and cleaned; "" when
\* there is none.
PathJoin(a, b) ==
    LET elems == SelectSeq(<<a, b>>, LAMBDA e : e # <<>>)
    IN  IF elems = <<>> THEN <<>> ELSE PathClean(Join(elems, S_slash))

\* ---------------------------------------------------------------------------
\* Overlay2.Mount and Overlay2.Unmount
\* ---------------------------------------------------------------------------
Callers == {"A", "B"}
SeqCallers == {"A"}

\* The arguments callers pass.
Targets == {<<>>, T_sealer, T_sealerSlash, T_sealerDotX}
Uppers == {U_up, U_upSpace, U_spaceUp}
LayerNames == {N_a, N_b, N_colon}
Requests == [target : Targets, upperLayer : Uppers, layers : SeqUpTo(LayerNames, MaxLayers)]
ConcRequests == {[target |-> T_sealer, upperLayer |-> U_up, layers |-> <<N_a, N_b>>]}

NoReq == [target |-> <<>>, upperLayer |-> <<>>, layers |-> <<>>]

\* The mount point a target names: the kernel resolves the path.
MountPoint(target) == PathClean(target)
MountPoints == {MountPoint(t) : t \in Targets \ {<<>>}}

\* One call to a collaborator: the function, its path argument, the mount data
\* (of mount only) and the error it returned ("nil" for none).
Called(fn, arg, data, res) == [fn |-> fn, arg |-> arg, data |-> data, res |-> res]

\* utils.Mkdir(dirName): creates the directory and its parents; an existing
\* directory is no error.
Mkdir(ds, dirName, ok) == IF ok THEN ds \cup {dirName} ELSE ds

\* os.RemoveAll(path): removes path and what it holds; a missing path is no error.
RemoveAll(ds, path) == ds \ {path}

\* The outcomes of os.Stat("/sys/module/overlay/parameters/index").
StatResults == {"nil", "ENOENT", "EACCES"}

\* A variant of MountData that joins the layers in the order given.
MountDataUnreversed(idx, layers, upperLayer, wd) ==
    idx \o S_lowerdir \o Join(layers, S_colon)
        \o S_upperdir \o upperLayer \o S_workdir \o wd

\* fmt.Sprintf("%slowerdir=%s,upperdir=%s,workdir=%s", indexOff,
\*             strings.Join(utils.Reverse(layers), ":"), upperLayer, workdir)
MountData(idx, layers, upperLayer, wd) ==
    idx \o S_lowerdir \o Join(Reverse(layers), S_colon)
        \o S_upperdir \o upperLayer \o S_workdir \o wd

\* Per-target mutual exclusion, when the callers impose it: nobody else is inside
\* a call on the target.
MayEnter(p, target) ==
    serialized => \A q \in Callers \ {p} : pc[q] = "idle" \/ req[q].target # target

\* A variant of CheckArgs without the check of the layers.
CheckArgsTargetOnly(target, layers) ==
    IF target = <<>> THEN "target cannot be empty" ELSE "nil"

\* Mount, lines 75-80: the error the argument checks return, "nil" when they pass.
CheckArgs(target, layers) ==
    IF target = <<>> THEN "target cannot be empty"
    ELSE IF Len(layers) = 0 THEN "layers cannot be empty"
    ELSE "nil"

\* Mount, lines 74-81: the argument checks and workdir := path.Join(target, "work").
MountEnter(p, R) ==
    /\ pc[p] = "idle"
    /\ \E r \in R :
        /\ MayEnter(p, r.target)
        /\ req' = [req EXCEPT ![p] = r]
        /\ IF CheckArgs(r.target, r.layers) # "nil"
             THEN /\ ret' = [ret EXCEPT ![p] = CheckArgs(r.target, r.layers)]
                  /\ pc' = [pc EXCEPT ![p] = "done"]
                  /\ UNCHANGED workdir
           ELSE /\ workdir' = [workdir EXCEPT ![p] = PathJoin(r.target, S_work)]
                /\ ret' = [ret EXCEPT ![p] = "none"]
                /\ pc' = [pc EXCEPT ![p] = "mkdir"]
    /\ calls' = [calls EXCEPT ![p] = <<>>]
    /\ err' = [err EXCEPT ![p] = "nil"]
    /\ indexOff' = [indexOff EXCEPT ![p] = <<>>]
    /\ UNCHANGED <<dirs, mounts, serialized>>
    /\ UNCHANGED <<queryVars, probeVars, enumVars>>

\* A variant of AfterMkdir that goes on when utils.Mkdir failed.
AfterMkdirIgnored(ok) == "stat"

\* Mount, lines 82-84: where Mount goes after utils.Mkdir: on to the probe, or
\* out with "create workdir failed".
AfterMkdir(ok) == IF ok THEN "stat" ELSE "done"

\* Mount, lines 82-84: utils.Mkdir(workdir); its failure returns before the
\* cleanup is deferred.
MountMkdir(p) ==
    /\ pc[p] = "mkdir"
    /\ \E ok \in BOOLEAN :
        /\ dirs' = Mkdir(dirs, workdir[p], ok)
        /\ calls' = [calls EXCEPT ![p] =
              Append(@, Called("Mkdir", workdir[p], <<>>, IF ok THEN "nil" ELSE "error"))]
        /\ pc' = [pc EXCEPT ![p] = AfterMkdir(ok)]
        /\ ret' = [ret EXCEPT ![p] =
              IF AfterMkdir(ok) = "done" THEN "create workdir failed" ELSE @]
    /\ UNCHANGED <<req, workdir, err, indexOff, mounts, serialized>>
    /\ UNCHANGED <<queryVars, probeVars, enumVars>>

\* Mount, lines 95-102: the switch on the error of os.Stat; indexOff is set only
\* when there is none.
IndexOffFor(res) == IF res = "nil" THEN S_indexOff ELSE <<>>

\* Mount, lines 92-102: _, err = os.Stat(...) and the switch.
MountStat(p) ==
    /\ pc[p] = "stat"
    /\ \E res \in StatResults :
        /\ err' = [err EXCEPT ![p] = res]
        /\ indexOff' = [indexOff EXCEPT ![p] = IndexOffFor(res)]
        /\ calls' = [calls EXCEPT ![p] = Append(@, Called("Stat", <<>>, <<>>, res))]
    /\ pc' = [pc EXCEPT ![p] = "mount"]
    /\ UNCHANGED <<req, workdir, ret, dirs, mounts, serialized>>
    /\ UNCHANGED <<queryVars, probeVars, enumVars>>

\* A variant of ErrAfterMount in which the mount error goes to a variable of the
\* if statement (err := mount(...)), so the deferred cleanup reads what os.Stat
\* left.
ErrShadowed(prev, ok) == prev

\* Mount, line 106: err = mount(...) assigns the variable the deferred cleanup
\* reads, whatever os.Stat left in it.
ErrAfterMount(prev, ok) == IF ok THEN "nil" ELSE "EMOUNT"

\* Mount, lines 104-109 with the helper mount (117-127, flag 0: no remount):
\* err = mount("overlay", target, "overlay", 0, mountData).  A successful mount
\* stacks on the mount point.
MountSyscall(p) ==
    /\ pc[p] = "mount"
    /\ \E ok \in BOOLEAN :
        LET m == MountPoint(req[p].target)
            mountData == MountData(indexOff[p], req[p].layers, req[p].upperLayer, workdir[p])
        IN  /\ ok => mounts[m] < MaxMounts
            /\ mounts' = IF ok THEN [mounts EXCEPT ![m] = @ + 1] ELSE mounts
            /\ err' = [err EXCEPT ![p] = ErrAfterMount(@, ok)]
            /\ ret' = [ret EXCEPT ![p] =
                  IF ok THEN "nil" ELSE "error creating overlay mount"]
            /\ calls' = [calls EXCEPT ![p] =
                  Append(@, Called("mount", req[p].target, mountData,
                                   IF ok THEN "nil" ELSE "error"))]
    /\ pc' = [pc EXCEPT ![p] = "defer"]
    /\ UNCHANGED <<req, workdir, indexOff, dirs, serialized>>
    /\ UNCHANGED <<queryVars, probeVars, enumVars>>

\* Mount, lines 86-90: the deferred function, run as Mount returns.
MountDefer(p) ==
    /\ pc[p] = "defer"
    /\ IF err[p] # "nil"
         THEN /\ dirs' = RemoveAll(dirs, workdir[p])
              /\ calls' = [calls EXCEPT ![p] =
                    Append(@, Called("RemoveAll", workdir[p], <<>>, "nil"))]
         ELSE UNCHANGED <<dirs, calls>>
    /\ pc' = [pc EXCEPT ![p] = "done"]
    /\ UNCHANGED <<req, workdir, err, indexOff, ret, mounts, serialized>>
    /\ UNCHANGED <<queryVars, probeVars, enumVars>>

\* The caller takes the result; the locals of the call are gone.
MountReturn(p) ==
    /\ pc[p] = "done"
    /\ pc' = [pc EXCEPT ![p] = "idle"]
    /\ req' = [req EXCEPT ![p] = NoReq]
    /\ workdir' = [workdir EXCEPT ![p] = <<>>]
    /\ err' = [err EXCEPT ![p] = "nil"]
    /\ indexOff' = [indexOff EXCEPT ![p] = <<>>]
    /\ ret' = [ret EXCEPT ![p] = "none"]
    /\ calls' = [calls EXCEPT ![p] = <<>>]
    /\ UNCHANGED <<dirs, mounts, serialized>>
    /\ UNCHANGED <<queryVars, probeVars, enumVars>>

\* Unmount, lines 112-115 with the helper unmount (129-131):
\* syscall.Unmount(target, MNT_FORCE) detaches the topmost mount of the target,
\* or fails.  No directory is touched.
Unmount(p, T) ==
    /\ pc[p] = "idle"
    /\ \E target \in T, ok \in BOOLEAN :
        /\ MayEnter(p, target)
        /\ ok => target # <<>> /\ mounts[MountPoint(target)] > 0
        /\ mounts' = IF ok THEN [mounts EXCEPT ![MountPoint(target)] = @ - 1] ELSE mounts
        /\ ret' = [ret EXCEPT ![p] = IF ok THEN "nil" ELSE "unmount error"]
    /\ UNCHANGED <<pc, req, workdir, err, indexOff, calls, dirs, serialized>>
    /\ UNCHANGED <<queryVars, probeVars, enumVars>>

\* ---------------------------------------------------------------------------
\* mountCmdResultSplit, GetMountDetails, GetRemoteMountDetails
\* ---------------------------------------------------------------------------
\* What a lookup gives its caller: (found, *Info), the pointer as a sequence of
\* at most one Info (<<>> is nil); or a run-time panic that unwinds the caller.
Miss == [panic |-> FALSE, found |-> FALSE, info |-> <<>>]
Found(target, upper, lowers) ==
    [panic |-> FALSE, found |-> TRUE,
     info |-> <<[Target |-> target, Upper |-> upper, Lowers |-> lowers]>>]
Panic == [panic |-> TRUE, found |-> FALSE, info |-> <<>>]

\* A variant of ParsedLowers that keeps the order of the mount table.
ParsedLowersUnreversed(field) == Split(field, S_colon)

\* mountCmdResultSplit, lines 166 and 171: the lower directories of the field
\* after ",lowerdir=", split at ":" and reversed.
ParsedLowers(field) == Reverse(Split(field, S_colon))

\* mountCmdResultSplit, lines 156-173.  Indexing the split at ",lowerdir=" with
\* 1 panics (index out of range) when the marker is missing; the split at
\* ",workdir=" always has an element 0.
mountCmdResultSplit(result, target) ==
    IF ~Contains(result, target) THEN Miss
    ELSE LET data == Split(result, S_upperdir) IN
         IF Len(data) < 2 THEN Miss
         ELSE LET lower == Split(data[1], S_lowerdirMark) IN
              IF Len(lower) < 2 THEN Panic
              ELSE Found(target,
                         TrimSpace(Split(data[2], S_workdir)[1]),
                         ParsedLowers(lower[2]))

\* The lines a mount table may hold, and the tables.
Lines == {Line_overlay, Line_overlayX, Line_tmpfs, Line_noLower, Line_proc}
Tables == SeqUpTo(Lines, MaxLines)
QueryTargets == {T_sealer, T_sealerX, T_other}

\* The text of a sequence of lines, each ended by a newline.
RECURSIVE Text(_)
Text(lines) == IF lines = <<>> THEN <<>> ELSE Head(lines) \o S_newline \o Text(Tail(lines))

\* The output of `mount | grep <target>`: the lines of the table that contain the
\* target (a target without regular-expression characters), in order.
Grep(table, target) == Text(SelectSeq(table, LAMBDA l : Contains(l, target)))

\* GetMountDetails, lines 139-146: utils.RunSimpleCmd returns an error when the
\* command fails; grep fails when no line matches.
GetMountDetails(target, table, cmdFails) ==
    IF cmdFails \/ Grep(table, target) = <<>> THEN Miss
    ELSE mountCmdResultSplit(Grep(table, target), target)

\* GetRemoteMountDetails, lines 148-154: s.Cmd returns the output of the remote
\* host, or an error.
GetRemoteMountDetails(output, cmdFails, target) ==
    IF cmdFails THEN Miss ELSE mountCmdResultSplit(output, target)

\* The line mount(8) prints for an overlay mounted on target with the option
\* data Mount passed.
MountLine(target, data) == Line_pre1 \o target \o Line_pre2 \o data \o Line_post

\* A local lookup against some mount table.
LookupLocal ==
    /\ pcq = "idle"
    /\ \E target \in QueryTargets, table \in Tables, cmdFails \in BOOLEAN :
        /\ query' = [kind |-> "local", target |-> target,
                     result |-> IF cmdFails THEN <<>> ELSE Grep(table, target),
                     failed |-> cmdFails \/ Grep(table, target) = <<>>,
                     origin |-> <<>>]
        /\ answer' = GetMountDetails(target, table, cmdFails)
    /\ pcq' = "answered"
    /\ UNCHANGED <<mountVars, probeVars, enumVars>>

\* A remote lookup: the transport returns any text, or an error.
LookupRemote ==
    /\ pcq = "idle"
    /\ \E target \in QueryTargets, table \in Tables, cmdFails \in BOOLEAN :
        /\ query' = [kind |-> "remote", target |-> target,
                     result |-> IF cmdFails THEN <<>> ELSE Text(table),
                     failed |-> cmdFails,
                     origin |-> <<>>]
        /\ answer' = GetRemoteMountDetails(Text(table), cmdFails, target)
    /\ pcq' = "answered"
    /\ UNCHANGED <<mountVars, probeVars, enumVars>>

\* The parser applied to the mount-table line of a mount that Mount made: the
\* option data is what Mount builds for the request and the outcome of os.Stat.
LookupBuilt ==
    /\ pcq = "idle"
    /\ \E r \in Requests, res \in StatResults :
        /\ CheckArgs(r.target, r.layers) = "nil"
        /\ LET data == MountData(IndexOffFor(res), r.layers, r.upperLayer,
                                 PathJoin(r.target, S_work))
               line == MountLine(r.target, data)
           IN  /\ query' = [kind |-> "built", target |-> r.target, result |-> line,
                            failed |-> FALSE, origin |-> <<[request |-> r, stat |-> res]>>]
               /\ answer' = mountCmdResultSplit(line, r.target)
    /\ pcq' = "answered"
    /\ UNCHANGED <<mountVars, probeVars, enumVars>>

NoQuery ==
    [kind |-> "none", target |-> <<>>, result |-> <<>>, failed |-> FALSE, origin |-> <<>>]

\* The caller takes the answer.
LookupReturn ==
    /\ pcq = "answered"
    /\ pcq' = "idle"
    /\ query' = NoQuery
    /\ answer' = Miss
    /\ UNCHANGED <<mountVars, probeVars, enumVars>>

InitQuery ==
    /\ pcq = "idle"
    /\ query = NoQuery
    /\ answer = Miss

\* ---------------------------------------------------------------------------
\* NewMountDriver and supportsOverlay
\* ---------------------------------------------------------------------------
\* The lines /proc/filesystems may hold; the first is the one supportsOverlay
\* looks for (overlay2.go:66).
NodevOverlay == "nodev\toverlay"
RegLines == {NodevOverlay, "nodev\toverlayfs", "\toverlay", "nodev\ttmpfs"}
Registries == SeqUpTo(RegLines, MaxRegLines)

\* A variant of supportsOverlay that keeps the answer of an earlier probe.
supportsOverlayCached(modprobe, open, lines) ==
    \/ driver = "Overlay2"
    \/ (modprobe /\ open /\ \E i \in DOMAIN lines : lines[i] = NodevOverlay)

\* supportsOverlay, lines 51-71: false when modprobe fails, false when the file
\* cannot be opened, else whether the scanner meets the line "nodev\toverlay".
supportsOverlay(modprobe, open, lines) ==
    IF ~modprobe THEN FALSE
    ELSE IF ~open THEN FALSE
    ELSE \E i \in DOMAIN lines : lines[i] = NodevOverlay

\* supportsOverlay, lines 59-63: the deferred f.Close() runs once the file was
\* opened; its failure ends the process in logger.Fatal.
ProbeIsFatal == modprobeOK /\ openOK /\ ~closeOK

\* NewMountDriver, lines 44-49: one probe per call.
NewMountDriver ==
    /\ pcd \in {"idle", "returned"}
    /\ IF ProbeIsFatal
         THEN /\ pcd' = "exited"
              /\ UNCHANGED <<driver, prevDriver>>
         ELSE /\ driver' = IF supportsOverlay(modprobeOK, openOK, filesystems)
                             THEN "Overlay2" ELSE "Default"
              /\ prevDriver' = driver
              /\ pcd' = "returned"
    /\ UNCHANGED <<modprobeOK, openOK, closeOK, filesystems>>
    /\ UNCHANGED <<mountVars, queryVars, enumVars>>

\* Between two calls the host changes: the module, the file, its lines.
HostChanges ==
    /\ pcd = "returned"
    /\ modprobeOK' \in BOOLEAN
    /\ openOK' \in BOOLEAN
    /\ closeOK' \in BOOLEAN
    /\ filesystems' \in Registries
    /\ pcd' = "idle"
    /\ UNCHANGED <<driver, prevDriver>>
    /\ UNCHANGED <<mountVars, queryVars, enumVars>>

InitProbe ==
    /\ modprobeOK = TRUE /\ openOK = TRUE /\ closeOK = TRUE
    /\ filesystems = <<>> /\ driver = "none" /\ prevDriver = "none" /\ pcd = "idle"

InitProbeAny ==
    /\ modprobeOK \in BOOLEAN /\ openOK \in BOOLEAN /\ closeOK \in BOOLEAN
    /\ filesystems \in Registries
    /\ driver = "none" /\ prevDriver = "none" /\ pcd = "idle"

\* ---------------------------------------------------------------------------
\* GetBuildMountInfo
\* ---------------------------------------------------------------------------
\* What disk.Partitions(true) may return (its error is dropped, line 178).
Parts ==
    {[Fstype |-> S_overlay, Mountpoint |-> T_sealer],
     [Fstype |-> S_overlay, Mountpoint |-> T_sealerX],
     [Fstype |-> S_overlay, Mountpoint |-> T_other],
     [Fstype |-> S_tmpfs, Mountpoint |-> T_sealer]}
Enumerations == SeqUpTo(Parts, MaxParts)
Filters == {<<>>, F_x, S_sealer, F_zz}

\* GetBuildMountInfo, lines 180-181: the condition of the first loop.
Retained(p, f) ==
    /\ p.Fstype = S_overlay
    /\ Contains(p.Mountpoint, S_sealer)
    /\ Contains(p.Mountpoint, f)

\* GetBuildMountInfo, lines 176-184: the first loop.
EnumStart ==
    /\ pcE \in {"idle", "done", "panic"}
    /\ partitions' \in Enumerations
    /\ filter' \in Filters
    /\ mp' = [i \in 1..Len(SelectSeq(partitions', LAMBDA p : Retained(p, filter'))) |->
                 SelectSeq(partitions', LAMBDA p : Retained(p, filter'))[i].Mountpoint]
    /\ mpi' = 1
    /\ infos' = <<>>
    /\ pcE' = "loop"
    /\ UNCHANGED <<mountVars, queryVars, probeVars>>

\* GetBuildMountInfo, lines 185-190: one round of the second loop; a panic of
\* the lookup unwinds GetBuildMountInfo.
EnumStep ==
    /\ pcE = "loop"
    /\ mpi <= Len(mp)
    /\ \E table \in Tables, cmdFails \in BOOLEAN :
        LET a == GetMountDetails(mp[mpi], table, cmdFails) IN
        IF a.panic
          THEN /\ pcE' = "panic"
               /\ UNCHANGED <<mpi, infos>>
          ELSE /\ infos' = IF a.info # <<>> THEN Append(infos, a.info[1]) ELSE infos
               /\ mpi' = mpi + 1
               /\ pcE' = "loop"
    /\ UNCHANGED <<partitions, filter, mp>>
    /\ UNCHANGED <<mountVars, queryVars, probeVars>>

\* GetBuildMountInfo, line 191: return infos.
EnumReturn ==
    /\ pcE = "loop"
    /\ mpi > Len(mp)
    /\ pcE' = "done"
    /\ UNCHANGED <<partitions, filter, mp, mpi, infos>>
    /\ UNCHANGED <<mountVars, queryVars, probeVars>>

InitEnum ==
    /\ pcE = "idle" /\ partitions = <<>> /\ filter = <<>>
    /\ mp = <<>> /\ mpi = 1 /\ infos = <<>>

\* ---------------------------------------------------------------------------
\* The specifications
\* ---------------------------------------------------------------------------
InitMount ==
    /\ pc = [p \in Callers |-> "idle"]
    /\ req = [p \in Callers |-> NoReq]
    /\ workdir = [p \in Callers |-> <<>>]
    /\ err = [p \in Callers |-> "nil"]
    /\ indexOff = [p \in Callers |-> <<>>]
    /\ ret = [p \in Callers |-> "none"]
    /\ calls = [p \in Callers |-> <<>>]
    /\ dirs = {}
    /\ mounts = [m \in MountPoints |-> 0]

\* One caller: Mount and Unmount calls one after the other.
Init == InitMount /\ serialized = TRUE /\ InitQuery /\ InitProbe /\ InitEnum

Next ==
    \/ \E p \in SeqCallers : MountEnter(p, Requests)
    \/ \E p \in SeqCallers : MountMkdir(p)
    \/ \E p \in SeqCallers : MountStat(p)
    \/ \E p \in SeqCallers : MountSyscall(p)
    \/ \E p \in SeqCallers : MountDefer(p)
    \/ \E p \in SeqCallers : MountReturn(p)
    \/ \E p \in SeqCallers : Unmount(p, Targets)

Spec == Init /\ [][Next]_vars

\* Two callers on one target, with or without mutual exclusion.
InitConc == InitMount /\ serialized \in BOOLEAN /\ InitQuery /\ InitProbe /\ InitEnum

NextConc ==
    \/ \E p \in Callers : MountEnter(p, ConcRequests)
    \/ \E p \in Callers : MountMkdir(p)
    \/ \E p \in Callers : MountStat(p)
    \/ \E p \in Callers : MountSyscall(p)
    \/ \E p \in Callers : MountDefer(p)
    \/ \E p \in Callers : MountReturn(p)
    \/ \E p \in Callers : Unmount(p, {T_sealer})

SpecConc == InitConc /\ [][NextConc]_vars

\* Lookups, each against a mount table or a command output of its own.
InitLookup == InitMount /\ serialized = TRUE /\ InitQuery /\ InitProbe /\ InitEnum

NextLookup ==
    \/ LookupLocal
    \/ LookupRemote
    \/ LookupBuilt
    \/ LookupReturn

SpecLookup == InitLookup /\ [][NextLookup]_vars

\* Driver selections on a host that changes between them.
InitDriver == InitMount /\ serialized = TRUE /\ InitQuery /\ InitProbeAny /\ InitEnum

NextDriver ==
    \/ NewMountDriver
    \/ HostChanges

SpecDriver == InitDriver /\ [][NextDriver]_vars

\* Enumerations of the build mounts.
InitBuild == InitMount /\ serialized = TRUE /\ InitQuery /\ InitProbe /\ InitEnum

NextBuild ==
    \/ EnumStart
    \/ EnumStep
    \/ EnumReturn

SpecBuild == InitBuild /\ [][NextBuild]_vars

\* ---------------------------------------------------------------------------
\* Properties of Mount and Unmount
\* ---------------------------------------------------------------------------
\* The calls of caller p to fn, as positions in calls[p].
CallsTo(p, fn) == {i \in DOMAIN calls[p] : calls[p][i].fn = fn}

\* The error os.Stat returned to the running call of p.
StatResult(p) == calls[p][CHOOSE i \in CallsTo(p, "Stat") : TRUE].res

\* The option data the claim describes, for a given work directory: the prefix
\* iff os.Stat succeeded, the layers last to first.
OptionData(p, wd) ==
    LET L == req[p].layers
        lower == Join([i \in 1..Len(L) |-> L[Len(L) + 1 - i]], <<":">>)
    IN  (IF StatResult(p) = "nil" THEN S_indexOff ELSE <<>>)
        \o S_lowerdir \o lower \o S_upperdir \o req[p].upperLayer \o S_workdir \o wd

\* The work directory of each target of the model, as path.Join gives it.
CleanWorkdir(target) ==
    CASE target = T_sealer -> W_sealerWork
      [] target = T_sealerSlash -> W_sealerWork
      [] target = T_sealerDotX -> W_sealerXWork

\* Whatever os.Stat returned, the mount is issued next.
MountFollowsStat ==
    \A p \in Callers :
        CallsTo(p, "Stat") # {} /\ pc[p] \in {"defer", "done"} => CallsTo(p, "mount") # {}

C3_MountOnlyWhenPrepared ==
    \A p \in Callers :
        /\ \A i \in CallsTo(p, "mount") :
               /\ req[p].target # <<>>
               /\ req[p].layers # <<>>
               /\ \E j \in CallsTo(p, "Mkdir") : j < i /\ calls[p][j].res = "nil"
        /\ pc[p] = "done" /\ (req[p].target = <<>> \/ req[p].layers = <<>>)
               => ret[p] \notin {"nil", "none"} /\ calls[p] = <<>>
        /\ pc[p] = "done" /\ (\E j \in CallsTo(p, "Mkdir") : calls[p][j].res = "error")
               => ret[p] \notin {"nil", "none"} /\ CallsTo(p, "mount") = {}

\* C3 witness: a call with a target and no layer has returned.
C3_Witness ==
    \E p \in Callers : pc[p] = "done" /\ req[p].target # <<>> /\ req[p].layers = <<>>

C9_MountedHasWorkdir ==
    \A m \in MountPoints : mounts[m] > 0 => (m \o S_slashWork) \in dirs

\* C10: when the calls on a target are serialized, the work directory exists
\* whenever a call is about to issue mount.
C10_WorkdirAtMount ==
    serialized => \A p \in Callers : pc[p] = "mount" => workdir[p] \in dirs

\* C10 witness: without serialization, a call is about to issue mount with its
\* work directory removed by the cleanup of the other call.
C10_Witness ==
    /\ ~serialized
    /\ \E p \in Callers :
        /\ pc[p] = "mount" /\ workdir[p] \notin dirs
        /\ \E q \in Callers \ {p} : CallsTo(q, "RemoveAll") # {}

\* ---------------------------------------------------------------------------
\* Properties of the lookups
\* ---------------------------------------------------------------------------
\* A path without ':' and ','.
PlainPath(s) == \A i \in DOMAIN s : s[i] \notin {":", ","}

\* The request of a built line has plain paths.
PlainRequest(r) ==
    /\ PlainPath(r.upperLayer)
    /\ PlainPath(r.target)
    /\ \A i \in DOMAIN r.layers : PlainPath(r.layers[i])

\* A string that neither starts nor ends with white space.
Untrimmed(s) == s = <<>> \/ (~IsSpace(s[1]) /\ ~IsSpace(s[Len(s)]))

\* C2 as stated: for plain paths, with the index flag or without it, the parser
\* gives back the layers in the order Mount received them, the upper directory
\* and the target.
C2_RoundTripAnyUpper ==
    query.kind = "built" =>
        LET r == query.origin[1].request IN
        PlainRequest(r) =>
            answer = [panic |-> FALSE, found |-> TRUE,
                      info |-> <<[Target |-> r.target, Upper |-> r.upperLayer,
                                  Lowers |-> r.layers]>>]

\* C2 amended: the same for an upper directory that neither starts nor ends with
\* white space (the parser trims it), the line being mount(8)'s
\* "overlay on <target> type overlay (rw,relatime,<option data>)".
C2_RoundTrip ==
    query.kind = "built" =>
        LET r == query.origin[1].request IN
        PlainRequest(r) /\ Untrimmed(r.upperLayer) =>
            answer = [panic |-> FALSE, found |-> TRUE,
                      info |-> <<[Target |-> r.target, Upper |-> r.upperLayer,
                                  Lowers |-> r.layers]>>]

\* C2 witness: a line without the index flag, built for two different plain
\* layers, has been parsed.
C2_Witness ==
    /\ query.kind = "built"
    /\ query.origin[1].stat = "ENOENT"
    /\ PlainRequest(query.origin[1].request) /\ Untrimmed(query.origin[1].request.upperLayer)
    /\ query.origin[1].request.layers = <<N_a, N_b>>
    /\ answer.found

\* C5: a lookup ends normally with (false, nil) or (true, non-nil Info),
\* whatever the command output; found is true iff the Info is not nil.
C5_LookupNeverThrows ==
    pcq = "answered" => ~answer.panic /\ (answer.found <=> answer.info # <<>>)

\* The first line of a text.
FirstLine(text) == Split(text, S_newline)[1]

\* The lines of a text that ends with a newline.
LinesOf(text) == SubSeq(Split(text, S_newline), 1, Len(Split(text, S_newline)) - 1)

\* C8: when the query returns several lines that all contain the target, the
\* lookup returns what the parser gives for the first of them alone (lookups
\* that panic, the matter of C5, set aside).
C8_FirstLineOnly ==
    LET ls == LinesOf(query.result) IN
    (/\ query.kind \in {"local", "remote"}
     /\ ~query.failed
     /\ ~answer.panic
     /\ Len(ls) >= 2
     /\ \A i \in DOMAIN ls : Contains(ls[i], query.target))
    => answer = mountCmdResultSplit(FirstLine(query.result), query.target)

RECURSIVE IsSubsequence(_, _)
IsSubsequence(s, t) ==
    IF s = <<>> THEN TRUE
    ELSE IF t = <<>> THEN FALSE
    ELSE IF Head(s) = Head(t) THEN IsSubsequence(Tail(s), Tail(t))
    ELSE IsSubsequence(s, Tail(t))

\* C7: every Info collected has the mount point of an enumerated overlay entry
\* that contains "sealer" and the filter; the Infos follow the enumeration order,
\* at most one per retained mount point; and a lookup that finds nothing does not
\* end the enumeration.
C7_BuildMountInfo ==
    /\ pcE # "panic"
    /\ \A i \in DOMAIN infos : \E j \in DOMAIN partitions :
           /\ partitions[j].Mountpoint = infos[i].Target
           /\ partitions[j].Fstype = S_overlay
           /\ Contains(partitions[j].Mountpoint, S_sealer)
           /\ Contains(partitions[j].Mountpoint, filter)
    /\ IsSubsequence([i \in DOMAIN infos |-> infos[i].Target], mp)

====
